---- MODULE Spec2Model ----
(***************************************************************************)
(* Model of video_compressor_gui.py: the batch worker (compress_videos /   *)
(* compress_video), the Tk event-loop handlers of VideoCompressorGUI, the  *)
(* ffmpeg download thread and the queue.Queue that connects them.          *)
(*                                                                         *)
(* Units: sizes are in half megabytes, durations in half seconds, so the   *)
(* float arithmetic of compress_video is exact rational arithmetic on the  *)
(* inputs the model enumerates.                                            *)
(***************************************************************************)
EXTENDS Integers, Sequences, FiniteSets, TLC

(***************************************************************************)
(* Bounds of the model.                                                    *)
(***************************************************************************)
\* number of compress_videos threads started while an earlier one still runs
MaxBatches == 1
\* number of start_compression calls that end in a warning or an exception
MaxRejected == 1
\* number of chunks of the ffmpeg download
MaxChunks == 1
\* number of times the user retypes the target size or output directory
MaxEdits == 1
\* largest target size (half MB) and duration (half seconds) of PlanSpec
MaxPlanSize == 16
MaxPlanDur == 6

(***************************************************************************)
(* Program constants.                                                      *)
(***************************************************************************)
\* '-b:a', '128k' and the 128 subtracted from the total bitrate
AudioKbps == 128
\* max(target_bitrate - 128, 64)
MinVideoKbps == 64
\* target_size_mb * 1024 * 1024 bytes, * 8 bits
BitsPerMB == 8388608
\* self.target_size = tk.StringVar(value="7"), in half MB
DefaultTargetSize == 14

(***************************************************************************)
(* Input domains.                                                          *)
(***************************************************************************)
\* video files the file dialog can return: [dir, base] is dir/base
File(d, b) == [dir |-> d, base |-> b]
Files == {File("A", "x.mp4"), File("A", "y.mp4")}

\* os.path.basename / os.path.dirname / os.path.join on the modelled paths
Basename(f) == f.base
Dirname(f) == f.dir
Join(d, b) == File(d, b)

\* contents of the target-size entry: a text float() parses to v half MB,
\* or a text on which float() raises ValueError.  The texts "nan" and "inf",
\* which float() parses and which are not <= 0, are numbers to lines 385-386
\* and are not among the texts enumerated here.
Num(v) == [num |-> TRUE, v |-> v]
NotANumber == [num |-> FALSE, v |-> 0]
TargetTexts == {Num(DefaultTargetSize), Num(0), NotANumber}

\* contents of the output-directory entry; os.makedirs fails on "nocreate"
Uncreatable == "nocreate"
TypedDirs == {"", Uncreatable}

\* outcomes of the duration probe: failure, or a parsed float in half seconds
ProbeFails == [ok |-> FALSE, d |-> 0]
Probed(d) == [ok |-> TRUE, d |-> d]
ProbeOutcomes == {ProbeFails, Probed(120), Probed(0), Probed(-2)}

\* outcomes of subprocess.run(compress_cmd, check=True)
RunOutcomes == {"ok", "nonzero", "missing"}

Batches == 1..MaxBatches


(***************************************************************************)
(* compress_video, lines 38-43: the bitrate computation.                   *)
(***************************************************************************)
Abs(n) == IF n < 0 THEN -n ELSE n
Max(a, b) == IF a >= b THEN a ELSE b

\* int(x) of the float x = n / d (d # 0): truncation toward zero
IntOf(n, d) ==
    IF (n >= 0) = (d > 0) THEN Abs(n) \div Abs(d) ELSE -(Abs(n) \div Abs(d))

\* faulty variant of the target bitrate: rounded to the nearest integer
\* instead of truncated
TargetBitrate_Rounded(ts, dur) ==
    IntOf(2 * ts * BitsPerMB + dur * 1000, 2 * dur * 1000)

\* target_bitrate = int((target_size_bytes * 8) / duration / 1000), for a
\* target size of ts half MB and a duration of dur half seconds
TargetBitrate(ts, dur) == IntOf(ts * BitsPerMB, dur * 1000)

\* faulty variants of the video bitrate: the max(..., 64) is left out, and
\* the operands of the subtraction are exchanged
VideoBitrate_NoFloor(ts, dur) == TargetBitrate(ts, dur) - AudioKbps
VideoBitrate_Exchanged(ts, dur) ==
    Max(AudioKbps - TargetBitrate(ts, dur), MinVideoKbps)

\* video_bitrate = max(target_bitrate - 128, 64)
VideoBitrate(ts, dur) == Max(TargetBitrate(ts, dur) - AudioKbps, MinVideoKbps)

\* the '-b:v' and '-b:a' arguments of compress_cmd
CompressCmd(ts, dur) == [video_kbps |-> VideoBitrate(ts, dur), audio_kbps |-> AudioKbps]

(***************************************************************************)
(* Messages of progress_queue.  A str message is a log line of some kind;  *)
(* {"progress": v} carries v = n / d * 100; {"done": True} ends a batch.   *)
(* b is the thread that pushed it (0: the download thread), i the job.     *)
(***************************************************************************)
Msg(kind, b, i, n, d) == [kind |-> kind, b |-> b, i |-> i, n |-> n, d |-> d]
LogLine(kind, b, i) == Msg(kind, b, i, 0, 1)
ProgressMsg(b, n, d) == Msg("progress", b, 0, n, d)
DoneMsg(b) == Msg("done", b, 0, 0, 1)
IsDict(m) == m.kind \in {"progress", "done"}

\* queue.Queue.put: append at the tail of the deque
Put(q, m) == Append(q, m)
\* faulty variant of get_nowait: pop at the tail (a LIFO queue)
GetNowait_Lifo(q) ==
    [message |-> q[Len(q)], rest |-> SubSeq(q, 1, Len(q) - 1)]

\* queue.Queue.get_nowait on a non-empty queue: popleft
GetNowait(q) == [message |-> Head(q), rest |-> Tail(q)]

VARIABLES
    video_files,     \* self.video_files
    video_listbox,   \* the entries of self.video_listbox, top to bottom
    target_size,     \* self.target_size (a text)
    output_dir,      \* self.output_dir (a text)
    ffmpeg_path,     \* self.ffmpeg_path ("None" is None)
    progress_queue,  \* self.progress_queue
    buttons,         \* state of the five buttons
    log_text,        \* lines of self.log_text
    progress_bar,    \* self.progress_bar: value (n / d * 100) and maximum
    status_var,      \* self.status_var
    worker,          \* the compress_videos threads, by batch
    download,        \* the download_ffmpeg thread
    pushed,          \* history: the messages put on progress_queue
    handled,         \* history: the messages process_queue has handled
    invoked,         \* history: the jobs <<b, i>> whose transcoder was run
    rejected,        \* history: start_compression calls that started nothing
    edits,           \* history: number of typed edits
    plan,            \* inputs and outputs of the bitrate plan (PlanSpec)
    timer            \* root.after(100, self.process_queue) is pending

vars == <<video_files, video_listbox, target_size, output_dir, ffmpeg_path,
          progress_queue, buttons, log_text, progress_bar, status_var,
          worker, download, pushed, handled, invoked, rejected, edits, plan,
          timer>>

uiVars == <<video_files, video_listbox, target_size, output_dir, buttons,
            log_text, progress_bar, status_var>>

ButtonNames == {"add_button", "clear_button", "browse_button",
                "compress_button", "remove_button"}
AllButtons(s) == [n \in ButtonNames |-> s]

\* the record kept of the job a thread is at: what its file, the probe and the
\* transcoder did, and how compress_video ended ("True", "False", "raised")
Job(exists, probe) ==
    [exists |-> exists, probe |-> probe, run |-> "", result |-> ""]
NoJob == Job(TRUE, ProbeFails)

NoWorker ==
    [pc |-> "none", output_dir |-> "", target_size |-> 0, total_files |-> 0,
     processed |-> 0, i |-> 0, files |-> <<>>, aliased |-> FALSE,
     video_file |-> File("", ""),
     ffmpeg_path |-> "None", cmd |-> CompressCmd(0, 1), success |-> FALSE,
     exc |-> "", line |-> 0, job |-> NoJob, start |-> 0,
     checked |-> [target_size |-> NotANumber, output_dir |-> ""]]

NoPlan == [pc |-> "idle", s1 |-> 1, s2 |-> 1, dur |-> 1, v1 |-> 0, v2 |-> 0,
           a1 |-> 0, a2 |-> 0]

\* no download thread runs: none was started, or it has ended
NoDownload == [pc |-> "none", sized |-> FALSE, chunks |-> 0]

\* __init__ without check_ffmpeg (lines 81-85, 145-202, 208)
InitWidgets ==
    /\ video_files = <<>>
    /\ video_listbox = <<>>
    /\ target_size = Num(DefaultTargetSize)
    /\ output_dir = ""
    /\ progress_queue = <<>>
    /\ buttons = [AllButtons("normal") EXCEPT !.compress_button = "disabled"]
    /\ log_text = <<>>
    /\ progress_bar = [n |-> 0, d |-> 1, maximum |-> 100]
    /\ worker = [b \in Batches |-> NoWorker]
    /\ pushed = <<>>
    /\ handled = <<>>
    /\ invoked = {}
    /\ rejected = 0
    /\ edits = 0
    /\ timer = TRUE

\* check_ffmpeg (lines 210-240) when it starts no thread: ffmpeg is on PATH,
\* ffmpeg.exe and ffprobe.exe are in the application directory, or the
\* download is declined
check_ffmpeg ==
    /\ ffmpeg_path \in {"ffmpeg", "app/ffmpeg/bin/ffmpeg.exe", "None"}
    /\ status_var = "Ready"
    /\ download = NoDownload

\* check_ffmpeg when the download is accepted (lines 231-233): the response
\* has a content-length, or has none
check_ffmpeg_download ==
    /\ ffmpeg_path = "None"
    /\ status_var = "Downloading FFmpeg..."
    /\ \E sized \in BOOLEAN :
           download = [pc |-> "L251", sized |-> sized, chunks |-> 0]

Init ==
    /\ InitWidgets
    /\ check_ffmpeg
    /\ plan = NoPlan

(***************************************************************************)
(* Handlers of the Tk event loop.  Tk runs one handler at a time, so each  *)
(* is one action.  A handler bound to a button runs only while the button  *)
(* is enabled.                                                             *)
(***************************************************************************)
Range(q) == {q[k] : k \in 1..Len(q)}
Enabled(name) == buttons[name] = "normal"

\* the sequences askopenfilenames can return: non-empty, without repetition
Selections ==
    {<<f>> : f \in Files} \cup
    {<<f, g>> : <<f, g>> \in {p \in Files \X Files : p[1] # p[2]}}

\* lines 340-342: the text of the entry inserted for a file.  The size part
\* of the text is left out: it is a function of the file, read while the
\* file the dialog has just returned is still there.
ListboxEntry(file) == Basename(file)

\* the loop of lines 337-342 with the insert of line 342 moved out of the
\* branch of line 338: an entry for every selected file
RECURSIVE AddFiles_InsertAlways(_, _, _)
AddFiles_InsertAlways(list, box, files) ==
    IF files = <<>> THEN [video_files |-> list, video_listbox |-> box]
    ELSE AddFiles_InsertAlways(
             IF Head(files) \in Range(list) THEN list
             ELSE Append(list, Head(files)),
             Append(box, ListboxEntry(Head(files))),
             Tail(files))

\* lines 337-342: every selected file that is not yet in the list (line 338)
\* is appended to it (line 339) and gets an entry at the end of the listbox
\* (line 342); the test reads the list, never the listbox
RECURSIVE AddFiles(_, _, _)
AddFiles(list, box, files) ==
    IF files = <<>> THEN [video_files |-> list, video_listbox |-> box]
    ELSE IF Head(files) \in Range(list)
         THEN AddFiles(list, box, Tail(files))
         ELSE AddFiles(Append(list, Head(files)),
                       Append(box, ListboxEntry(Head(files))),
                       Tail(files))

\* lines 366-368: del list[index] for every selected (1-based) index
DeleteIndices(list, sel) ==
    LET keep == {k \in 1..Len(list) : k \notin sel}
        RECURSIVE Build(_)
        Build(k) == IF k > Len(list) THEN <<>>
                    ELSE IF k \in keep THEN <<list[k]>> \o Build(k + 1)
                    ELSE Build(k + 1)
    IN  Build(1)

\* a thread iterating over the list object that self.video_files still names
\* sees its in-place changes (append, del); clear_videos rebinds the name
Alias(w, list) == IF w.aliased THEN [w EXCEPT !.files = list] ELSE w

\* add_videos (lines 326-351) with a non-empty selection
add_videos(files) ==
    /\ Enabled("add_button")
    /\ LET added == AddFiles(video_files, video_listbox, files)
           list == added.video_files
       IN  /\ video_files' = list
           /\ video_listbox' = added.video_listbox
           /\ worker' = [b \in Batches |-> Alias(worker[b], list)]
           /\ output_dir' = IF output_dir = "" /\ list # <<>>
                            THEN Dirname(list[1]) \o "/compressed"
                            ELSE output_dir
           /\ buttons' = IF list # <<>>
                         THEN [buttons EXCEPT !.compress_button = "normal"]
                         ELSE buttons
    /\ UNCHANGED <<target_size, ffmpeg_path, progress_queue, log_text,
                   progress_bar, status_var, download, pushed, handled,
                   invoked, rejected, edits, plan, timer>>

\* clear_videos (lines 353-357)
clear_videos ==
    /\ Enabled("clear_button")
    /\ video_files' = <<>>
    /\ video_listbox' = <<>>
    /\ worker' = [b \in Batches |-> [worker[b] EXCEPT !.aliased = FALSE]]
    /\ buttons' = [buttons EXCEPT !.compress_button = "disabled"]
    /\ UNCHANGED <<target_size, output_dir, ffmpeg_path, progress_queue,
                   log_text, progress_bar, status_var, download, pushed,
                   handled, invoked, rejected, edits, plan, timer>>

\* remove_selected_videos (lines 359-372) with a non-empty selection
remove_selected_videos(sel) ==
    /\ Enabled("remove_button")
    /\ sel # {}
    /\ LET list == DeleteIndices(video_files, sel)
       IN  /\ video_files' = list
           /\ video_listbox' = DeleteIndices(video_listbox, sel)
           /\ worker' = [b \in Batches |-> Alias(worker[b], list)]
           /\ buttons' = IF list = <<>>
                         THEN [buttons EXCEPT !.compress_button = "disabled"]
                         ELSE buttons
    /\ UNCHANGED <<target_size, output_dir, ffmpeg_path, progress_queue,
                   log_text, progress_bar, status_var, download, pushed,
                   handled, invoked, rejected, edits, plan, timer>>

\* browse_output (lines 374-377) with a directory chosen
BrowsedDirs == {"A"}
browse_output(directory) ==
    /\ Enabled("browse_button")
    /\ output_dir' = directory
    /\ UNCHANGED <<video_files, video_listbox, target_size, ffmpeg_path,
                   progress_queue, buttons, log_text, progress_bar,
                   status_var, worker, download, pushed, handled, invoked,
                   rejected, edits, plan, timer>>

\* the user types into size_entry (lines 99-101); the entry is never disabled
size_entry(text) ==
    /\ edits < MaxEdits
    /\ text # target_size
    /\ target_size' = text
    /\ edits' = edits + 1
    /\ UNCHANGED <<video_files, video_listbox, output_dir, ffmpeg_path,
                   progress_queue, buttons, log_text, progress_bar,
                   status_var, worker, download, pushed, handled, invoked,
                   rejected, plan, timer>>

\* the user types into output_entry (lines 117-119); never disabled either
output_entry(text) ==
    /\ edits < MaxEdits
    /\ text # output_dir
    /\ output_dir' = text
    /\ edits' = edits + 1
    /\ UNCHANGED <<video_files, video_listbox, target_size, ffmpeg_path,
                   progress_queue, buttons, log_text, progress_bar,
                   status_var, worker, download, pushed, handled, invoked,
                   rejected, plan, timer>>

(***************************************************************************)
(* start_compression (lines 379-417).                                      *)
(***************************************************************************)
\* float(self.target_size.get()) raises ValueError
FloatRaises(text) == ~text.num
\* os.makedirs(output_dir, exist_ok=True) raises OSError
MakedirsRaises(dir) == dir = Uncreatable

\* faulty variant of the checks: the test target_size_mb <= 0 is left out
StartCheck_NoPositiveCheck ==
    IF video_files = <<>> THEN "No videos selected for compression."
    ELSE IF FloatRaises(target_size)
         THEN "Please enter a valid number for target size."
    ELSE IF output_dir = "" THEN "Please select an output directory."
    ELSE IF MakedirsRaises(output_dir) THEN "OSError"
    ELSE ""

\* how the checks of lines 380-399 end: "" when all of them pass
StartCheck ==
    IF video_files = <<>> THEN "No videos selected for compression."
    ELSE IF FloatRaises(target_size)
         THEN "Please enter a valid number for target size."
    ELSE IF target_size.v <= 0 THEN "Target size must be greater than 0."
    ELSE IF output_dir = "" THEN "Please select an output directory."
    ELSE IF MakedirsRaises(output_dir) THEN "OSError"
    ELSE ""

\* a thread that does not run: never started, returned, or ended by an
\* exception
Ended(w) == w.pc \in {"none", "finished", "raised"}
Running(b) == ~Ended(worker[b])

\* the first batch whose thread has not been started
NextBatch == CHOOSE b \in Batches :
                 /\ worker[b].pc = "none"
                 /\ \A c \in Batches : c < b => worker[c].pc # "none"

\* the record of a thread at threading.Thread(...).start(), line 417
Started(start) ==
    [NoWorker EXCEPT !.pc = "L420",
                     !.start = start,
                     !.checked = [target_size |-> target_size,
                                  output_dir |-> output_dir]]

\* lines 380-399 end the handler: a warning box, or OSError out of makedirs
start_compression_rejected ==
    /\ Enabled("compress_button")
    /\ StartCheck # ""
    /\ rejected < MaxRejected
    /\ rejected' = rejected + 1
    /\ UNCHANGED <<video_files, video_listbox, target_size, output_dir,
                   ffmpeg_path, progress_queue, buttons, log_text,
                   progress_bar, status_var, worker, download, pushed,
                   handled, invoked, edits, plan, timer>>

\* lines 401-417: disable the controls, clear the log, reset the bar and
\* start the compress_videos thread
start_compression_started ==
    /\ Enabled("compress_button")
    /\ StartCheck = ""
    /\ buttons' = AllButtons("disabled")
    /\ log_text' = <<>>
    /\ progress_bar' = [n |-> 0, d |-> 1, maximum |-> Len(video_files)]
    /\ status_var' = "Compressing videos..."
    /\ IF \A b \in Batches : Ended(worker[b])
       THEN \* no thread runs: the histories start again at this batch
            /\ worker' = [b \in Batches |->
                              IF b = 1 THEN Started(Len(progress_queue))
                              ELSE NoWorker]
            /\ pushed' = progress_queue
            /\ handled' = <<>>
            /\ invoked' = {}
       ELSE /\ \E b \in Batches : worker[b].pc = "none"
            /\ worker' = [worker EXCEPT ![NextBatch] = Started(Len(pushed))]
            /\ UNCHANGED <<pushed, handled, invoked>>
    /\ UNCHANGED <<video_files, video_listbox, target_size, output_dir,
                   ffmpeg_path, progress_queue, download, rejected, edits,
                   plan, timer>>

start_compression == start_compression_rejected \/ start_compression_started

(***************************************************************************)
(* process_queue (lines 455-491): take every message that is available,    *)
(* handle each, and re-arm the timer.                                      *)
(***************************************************************************)
Widgets == [buttons |-> buttons, log_text |-> log_text,
            progress_bar |-> progress_bar, status_var |-> status_var]

\* lines 460-484: the effect of one message on the widgets
HandleMessage(w, message) ==
    IF IsDict(message)
    THEN IF message.kind = "progress"
         THEN [w EXCEPT !.progress_bar.n = message.n,
                        !.progress_bar.d = message.d]
         ELSE [w EXCEPT !.status_var = "Compression completed!",
                        !.buttons = AllButtons("normal")]
    ELSE [w EXCEPT !.log_text = Append(@, message)]

\* faulty variant of line 491: the timer is set again only after a run that
\* found something in the queue
Rearm_WhenBusy == progress_queue # <<>>

\* line 491, self.root.after(100, self.process_queue): reached on every run,
\* whatever the loop found
Rearm == TRUE

\* lines 457-488: the get_nowait loop, until queue.Empty
RECURSIVE DrainQueue(_, _, _)
DrainQueue(w, q, done) ==
    IF q = <<>> THEN [widgets |-> w, handled |-> done]
    ELSE LET got == GetNowait(q)
         IN  DrainQueue(HandleMessage(w, got.message), got.rest,
                        Append(done, got.message))

process_queue ==
    LET r == DrainQueue(Widgets, progress_queue, handled)
    IN  /\ timer
        /\ timer' = Rearm
        /\ progress_queue' = <<>>
        /\ handled' = r.handled
        /\ buttons' = r.widgets.buttons
        /\ log_text' = r.widgets.log_text
        /\ progress_bar' = r.widgets.progress_bar
        /\ status_var' = r.widgets.status_var
        /\ UNCHANGED <<video_files, video_listbox, target_size, output_dir,
                       ffmpeg_path, worker, download, pushed, invoked,
                       rejected, edits, plan>>

(***************************************************************************)
(* The compress_videos thread of batch b (lines 419-453), one action per   *)
(* put on progress_queue.  pc names the line the thread is at.             *)
(***************************************************************************)
PutMessage(m) ==
    /\ progress_queue' = Put(progress_queue, m)
    /\ pushed' = Append(pushed, m)

RECURSIVE PutAll(_, _)
PutAll(q, ms) == IF ms = <<>> THEN q ELSE PutAll(Put(q, Head(ms)), Tail(ms))

PutMessages(ms) ==
    /\ progress_queue' = PutAll(progress_queue, ms)
    /\ pushed' = pushed \o ms

\* an exception nothing catches ends the thread; exc is raised at line.
\* The locals of a thread end with it.
Raise(w, exc, line) ==
    [NoWorker EXCEPT !.pc = "raised", !.exc = exc, !.line = line,
                     !.start = w.start]

\* compress_videos returns
Return(w) == [NoWorker EXCEPT !.pc = "finished", !.start = w.start]

\* lines 420-427: read the two entries and the list, announce the batch
compress_videos_begin(b) ==
    /\ worker[b].pc = "L420"
    /\ IF FloatRaises(target_size)
       THEN /\ worker' = [worker EXCEPT ![b] = Raise(@, "ValueError", 421)]
            /\ UNCHANGED <<progress_queue, pushed>>
       ELSE /\ worker' = [worker EXCEPT ![b] =
                   [@ EXCEPT !.pc = "L429",
                             !.output_dir = output_dir,
                             !.target_size = target_size.v,
                             !.total_files = Len(video_files),
                             !.files = video_files,
                             !.aliased = TRUE]]
            /\ PutMessage(LogLine("Starting", b, 0))
    /\ UNCHANGED <<uiVars, ffmpeg_path, download, handled, invoked, rejected,
                   edits, plan, timer>>

\* lines 430-431: output_file of the job the thread is at
OutputFile(w) == Join(w.output_dir, Basename(w.video_file))

\* faulty variant of lines 435-436: the log line is put first
PreJob_LogFirst(w, b) ==
    <<LogLine("Processing", b, w.i), ProgressMsg(b, w.i, w.total_files)>>

\* lines 434-436: the two puts that precede the call of compress_video, in
\* the order of the code
PreJob(w, b) ==
    <<ProgressMsg(b, w.i, w.total_files), LogLine("Processing", b, w.i)>>

\* line 429, then 430-435 or 453: the next file of the list and its first
\* progress value, or the end of the batch
compress_videos_next(b) ==
    LET w == worker[b] IN
    /\ w.pc = "L429"
    /\ IF w.i < Len(w.files)
       THEN IF w.total_files = 0
            THEN /\ worker' = [worker EXCEPT ![b] =
                        Raise(@, "ZeroDivisionError", 434)]
                 /\ UNCHANGED <<progress_queue, pushed>>
            ELSE /\ worker' = [worker EXCEPT ![b] =
                        [@ EXCEPT !.pc = "L436",
                                  !.video_file = w.files[w.i + 1]]]
                 /\ PutMessage(PreJob(w, b)[1])
       ELSE /\ worker' = [worker EXCEPT ![b] = Return(@)]
            /\ PutMessage(DoneMsg(b))
    /\ UNCHANGED <<uiVars, ffmpeg_path, download, handled, invoked, rejected,
                   edits, plan, timer>>

\* line 436
compress_videos_processing(b) ==
    /\ worker[b].pc = "L436"
    /\ worker' = [worker EXCEPT ![b].pc = "L439"]
    /\ PutMessage(PreJob(worker[b], b)[2])
    /\ UNCHANGED <<uiVars, ffmpeg_path, download, handled, invoked, rejected,
                   edits, plan, timer>>

\* compress_video, lines 15-46, called at line 439 with self.ffmpeg_path:
\* the size of the input, the path of ffprobe, the probe, the bitrate
compress_video_probe(b, exists, probe) ==
    LET w == worker[b]
        ends(result) == [Job(exists, probe) EXCEPT !.result = result]
    IN
    /\ w.pc = "L439"
    /\ exists \/ probe = ProbeFails
    /\ IF ~exists
       THEN /\ worker' = [worker EXCEPT ![b] =
                   Raise(@, "OSError", 15)]
            /\ UNCHANGED <<progress_queue, pushed>>
       ELSE IF ffmpeg_path = "None"
       THEN /\ worker' = [worker EXCEPT ![b] =
                   Raise(@, "TypeError", 24)]
            /\ UNCHANGED <<progress_queue, pushed>>
       ELSE IF ~probe.ok
       THEN /\ worker' = [worker EXCEPT ![b] =
                   [@ EXCEPT !.pc = "L441", !.success = FALSE,
                             !.ffmpeg_path = ffmpeg_path,
                             !.job = ends("False")]]
            /\ PutMessage(LogLine("Error getting duration", b, w.i))
       ELSE IF probe.d = 0
       THEN /\ worker' = [worker EXCEPT ![b] =
                   Raise(@, "ZeroDivisionError", 40)]
            /\ UNCHANGED <<progress_queue, pushed>>
       ELSE /\ worker' = [worker EXCEPT ![b] =
                   [@ EXCEPT !.pc = "L57",
                             !.ffmpeg_path = ffmpeg_path,
                             !.cmd = CompressCmd(w.target_size, probe.d),
                             !.job = ends("")]]
            /\ PutMessage(LogLine("Compressing", b, w.i))
    /\ UNCHANGED <<uiVars, ffmpeg_path, download, handled, invoked, rejected,
                   edits, plan, timer>>

\* compress_video, lines 56-65: run the transcoder
compress_video_run(b, run) ==
    LET w == worker[b]
        ends(result) == [w.job EXCEPT !.run = run, !.result = result]
    IN
    /\ w.pc = "L57"
    /\ IF run = "missing"
       THEN /\ worker' = [worker EXCEPT ![b] =
                   Raise(@, "FileNotFoundError", 57)]
            /\ UNCHANGED <<progress_queue, pushed, invoked>>
       ELSE /\ invoked' = invoked \cup {<<b, w.i>>}
            /\ IF run = "ok"
               THEN /\ worker' = [worker EXCEPT ![b] =
                           [@ EXCEPT !.pc = "L441", !.success = TRUE,
                                     !.job = ends("True")]]
                    /\ PutMessage(LogLine("Completed", b, w.i))
               ELSE /\ worker' = [worker EXCEPT ![b] =
                           [@ EXCEPT !.pc = "L441", !.success = FALSE,
                                     !.job = ends("False")]]
                    /\ PutMessage(LogLine("Error compressing", b, w.i))
    /\ UNCHANGED <<uiVars, ffmpeg_path, download, handled, rejected, edits,
                   plan, timer>>

\* lines 441-442
compress_videos_processed(b) ==
    LET w == worker[b] IN
    /\ w.pc = "L441"
    /\ worker' = [worker EXCEPT ![b] =
           [@ EXCEPT !.pc = "L445", !.processed = w.processed + 1]]
    /\ PutMessage(ProgressMsg(b, w.processed + 1, w.total_files))
    /\ UNCHANGED <<uiVars, ffmpeg_path, download, handled, invoked, rejected,
                   edits, plan, timer>>

\* faulty variant of the end of a job: the value compress_video returned is
\* not looked at
Report_AlwaysCompressed(w, b) == <<LogLine("compressed", b, w.i)>>

\* faulty variant of the end of a job: the put of {"done": True} is inside
\* the loop
Report_DoneInLoop(w, b) ==
    <<LogLine(IF w.success THEN "compressed" ELSE "Failed to compress", b, w.i),
      DoneMsg(b)>>

\* lines 445-451: what the thread puts on the queue at the end of a job.
\* Lines 446-447 read the sizes of the input and the output again; the two
\* files are taken to be as compress_video left them.
Report(w, b) ==
    <<LogLine(IF w.success THEN "compressed" ELSE "Failed to compress", b, w.i)>>

\* faulty variant of the loop: a job that failed is run again
NextIndex_Retry(w) == IF w.success THEN w.i + 1 ELSE w.i

\* line 429: enumerate moves on to the next index, whatever the job returned
NextIndex(w) == w.i + 1

\* lines 445-451, and back to line 429
compress_videos_report(b) ==
    LET w == worker[b] IN
    /\ w.pc = "L445"
    /\ worker' = [worker EXCEPT ![b] =
           [@ EXCEPT !.pc = "L429", !.i = NextIndex(w), !.job = NoJob,
                     !.cmd = NoWorker.cmd, !.success = FALSE]]
    /\ PutMessages(Report(w, b))
    /\ UNCHANGED <<uiVars, ffmpeg_path, download, handled, invoked, rejected,
                   edits, plan, timer>>

(***************************************************************************)
(* The download_ffmpeg thread (lines 242-324), started by check_ffmpeg.    *)
(***************************************************************************)
\* line 251
download_ffmpeg_begin ==
    /\ download.pc = "L251"
    /\ download' = [download EXCEPT !.pc = "L263"]
    /\ log_text' = Append(log_text, LogLine("Downloading FFmpeg...", 0, 0))
    /\ UNCHANGED <<video_files, video_listbox, target_size, output_dir,
                   ffmpeg_path, progress_queue, buttons, progress_bar,
                   status_var, worker, pushed, handled, invoked, rejected,
                   edits, plan, timer>>

\* lines 263-270: one chunk; progress is downloaded / total_size * 100, or 0
\* when the response has no content-length
download_ffmpeg_chunk ==
    /\ download.pc = "L263"
    /\ download.chunks < MaxChunks
    /\ download' = [download EXCEPT !.chunks = @ + 1]
    /\ PutMessage(IF download.sized
                  THEN ProgressMsg(0, download.chunks + 1, MaxChunks)
                  ELSE ProgressMsg(0, 0, 1))
    /\ status_var' = "Downloading FFmpeg: %"
    /\ UNCHANGED <<video_files, video_listbox, target_size, output_dir,
                   ffmpeg_path, buttons, log_text, progress_bar, worker,
                   handled, invoked, rejected, edits, plan, timer>>

\* lines 272-304: extract the archive and set self.ffmpeg_path
download_ffmpeg_extract ==
    /\ download.pc = "L263"
    /\ download.chunks = MaxChunks
    /\ download' = [download EXCEPT !.pc = "L307"]
    /\ log_text' = Append(log_text, LogLine("Extracting FFmpeg...", 0, 0))
    /\ ffmpeg_path' = "app/ffmpeg/bin/ffmpeg.exe"
    /\ UNCHANGED <<video_files, video_listbox, target_size, output_dir,
                   progress_queue, buttons, progress_bar, status_var, worker,
                   pushed, handled, invoked, rejected, edits, plan, timer>>

\* lines 307-312: ffmpeg.exe is where it was expected
download_ffmpeg_installed ==
    /\ download.pc = "L307"
    /\ download' = NoDownload
    /\ log_text' = Append(log_text, LogLine("FFmpeg downloaded", 0, 0))
    /\ status_var' = "Ready"
    /\ progress_bar' = [progress_bar EXCEPT !.n = 0, !.d = 1]
    /\ buttons' = [buttons EXCEPT !.compress_button = "normal"]
    /\ UNCHANGED <<video_files, video_listbox, target_size, output_dir,
                   ffmpeg_path, progress_queue, worker, pushed, handled,
                   invoked, rejected, edits, plan, timer>>

\* lines 316-324: an exception of lines 244-314 (no network, a bad archive,
\* ffmpeg.exe not where it was expected)
download_ffmpeg_failed ==
    /\ download.pc \in {"L251", "L263", "L307"}
    /\ download' = NoDownload
    /\ log_text' = Append(log_text, LogLine("Error downloading FFmpeg", 0, 0))
    /\ status_var' = "FFmpeg download failed"
    /\ UNCHANGED <<video_files, video_listbox, target_size, output_dir,
                   ffmpeg_path, progress_queue, buttons, progress_bar, worker,
                   pushed, handled, invoked, rejected, edits, plan, timer>>

(***************************************************************************)
(* The system: the event loop, the batch threads and the download thread.  *)
(***************************************************************************)
\* the steps of the compress_videos threads
compress_videos ==
    \/ \E b \in Batches : compress_videos_begin(b)
    \/ \E b \in Batches : compress_videos_next(b)
    \/ \E b \in Batches : compress_videos_processing(b)
    \/ \E b \in Batches, exists \in BOOLEAN, probe \in ProbeOutcomes :
           compress_video_probe(b, exists, probe)
    \/ \E b \in Batches, run \in RunOutcomes : compress_video_run(b, run)
    \/ \E b \in Batches : compress_videos_processed(b)
    \/ \E b \in Batches : compress_videos_report(b)

\* the steps of the download_ffmpeg thread
download_ffmpeg ==
    \/ download_ffmpeg_begin
    \/ download_ffmpeg_chunk
    \/ download_ffmpeg_extract
    \/ download_ffmpeg_installed
    \/ download_ffmpeg_failed

\* The program when check_ffmpeg starts no download: the user, the consumer
\* and the batch threads.
Next ==
    \/ \E files \in Selections : add_videos(files)
    \/ clear_videos
    \/ \E sel \in SUBSET (1..Len(video_listbox)) : remove_selected_videos(sel)
    \/ \E directory \in BrowsedDirs : browse_output(directory)
    \/ \E text \in TargetTexts : size_entry(text)
    \/ \E text \in TypedDirs : output_entry(text)
    \/ start_compression_rejected
    \/ start_compression_started
    \/ process_queue
    \/ compress_videos

Spec == Init /\ [][Next]_vars

\* The program when check_ffmpeg starts the download thread, with a user who
\* only adds videos and starts batches, readable files, and a probe and a
\* transcoder that succeed once they are installed.
DownloadInit ==
    /\ InitWidgets
    /\ check_ffmpeg_download
    /\ plan = NoPlan

DownloadNext ==
    \/ \E files \in Selections : add_videos(files)
    \/ start_compression_started
    \/ process_queue
    \/ \E b \in Batches : compress_videos_begin(b)
    \/ \E b \in Batches : compress_videos_next(b)
    \/ \E b \in Batches : compress_videos_processing(b)
    \/ \E b \in Batches : compress_video_probe(b, TRUE, Probed(120))
    \/ \E b \in Batches : compress_video_run(b, "ok")
    \/ \E b \in Batches : compress_videos_processed(b)
    \/ \E b \in Batches : compress_videos_report(b)
    \/ download_ffmpeg

DownloadSpec == DownloadInit /\ [][DownloadNext]_vars

(***************************************************************************)
(* The bitrate plan of compress_video on its own: the inputs are drawn     *)
(* from bounded sets and the computation of lines 38-54 is applied to a    *)
(* pair of target sizes at one duration.                                   *)
(***************************************************************************)
\* 60 s and 600 s are the durations of the documented examples
PlanDurations == (1..MaxPlanDur) \cup {120, 1200}

PlanInit ==
    /\ InitWidgets
    /\ ffmpeg_path = "ffmpeg"
    /\ status_var = "Ready"
    /\ download = NoDownload
    /\ \E s1 \in 1..MaxPlanSize, s2 \in 1..MaxPlanSize, dur \in PlanDurations :
           plan = [NoPlan EXCEPT !.s1 = s1, !.s2 = s2, !.dur = dur]

plan_first ==
    /\ plan.pc = "idle"
    /\ plan' = [plan EXCEPT !.pc = "first",
                            !.v1 = CompressCmd(plan.s1, plan.dur).video_kbps,
                            !.a1 = CompressCmd(plan.s1, plan.dur).audio_kbps]
    /\ UNCHANGED <<uiVars, ffmpeg_path, progress_queue, worker, download,
                   pushed, handled, invoked, rejected, edits, timer>>

plan_second ==
    /\ plan.pc = "first"
    /\ plan' = [plan EXCEPT !.pc = "both",
                            !.v2 = CompressCmd(plan.s2, plan.dur).video_kbps,
                            !.a2 = CompressCmd(plan.s2, plan.dur).audio_kbps]
    /\ UNCHANGED <<uiVars, ffmpeg_path, progress_queue, worker, download,
                   pushed, handled, invoked, rejected, edits, timer>>

PlanNext == plan_first \/ plan_second

PlanSpec == PlanInit /\ [][PlanNext]_vars

(***************************************************************************)
(* The producers and the consumer of progress_queue under the scheduling   *)
(* the program relies on: the Tk event loop runs a pending timer callback  *)
(* (lines 208 and 491).  The user adds videos and starts batches; files,   *)
(* probe and transcoder behave in every way.                               *)
(***************************************************************************)
FairNext ==
    \/ \E files \in Selections : add_videos(files)
    \/ start_compression_started
    \/ process_queue
    \/ compress_videos

FairSpec == Init /\ [][FairNext]_vars /\ WF_vars(process_queue)

(***************************************************************************)
(* The event loop on its own, from every outcome of check_ffmpeg: all the  *)
(* handlers of the window, the consumer and the download thread.  The      *)
(* compress_videos threads that start_compression starts are not           *)
(* scheduled.                                                              *)
(***************************************************************************)
UiInit ==
    /\ InitWidgets
    /\ check_ffmpeg \/ check_ffmpeg_download
    /\ plan = NoPlan

UiNext ==
    \/ \E files \in Selections : add_videos(files)
    \/ clear_videos
    \/ \E sel \in SUBSET (1..Len(video_listbox)) : remove_selected_videos(sel)
    \/ \E directory \in BrowsedDirs : browse_output(directory)
    \/ \E text \in TargetTexts : size_entry(text)
    \/ \E text \in TypedDirs : output_entry(text)
    \/ start_compression_rejected
    \/ start_compression_started
    \/ process_queue
    \/ download_ffmpeg

UiSpec == UiInit /\ [][UiNext]_vars

(***************************************************************************)
(* Properties.                                                             *)
(***************************************************************************)
\* what was put on the queue since the thread of batch b was started
SinceStart(b) == SubSeq(pushed, worker[b].start + 1, Len(pushed))
\* what process_queue has handled of it
HandledSinceStart(b) == SubSeq(handled, worker[b].start + 1, Len(handled))
DoneCount(b) == Len(SelectSeq(SinceStart(b), LAMBDA m : m = DoneMsg(b)))
\* the last message thread b has put
LastOf(b) ==
    LET mine == SelectSeq(SinceStart(b), LAMBDA m : m.b = b)
    IN  mine[Len(mine)]

\* a job whose file is there, whose probe gives a positive duration and
\* whose transcoder exits with 0
PositiveProbe(job) == job.probe.ok /\ job.probe.d > 0
NonFailing(job) == job.exists /\ PositiveProbe(job) /\ job.run = "ok"

\* C1: failure isolation.  No failing job (input file missing, probe
\* failure, transcoder failure) ends the thread of its batch: the thread is
\* not ended by an exception out of the size lookup of line 15 or the
\* transcoder call of line 57, a thread that has ended has put exactly one
\* {"done": True}, and a job that does not fail is reported as a success.
C1_FailureIsolation ==
    \A b \in Batches :
        LET w == worker[b] IN
        /\ w.pc = "raised" => w.line \notin {15, 57}
        /\ w.pc = "finished" => DoneCount(b) = 1
        /\ DoneCount(b) <= 1
        /\ (w.pc = "L445" /\ NonFailing(w.job)) => w.success

\* C2: a probe that does not yield a positive float (it fails, or its output
\* parses to zero or to a negative number) ends the job as a failure with an
\* error line on the queue, the transcoder is not invoked for it, and no
\* exception leaves compress_video because of it.
C2_ProbeFailureContained ==
    \A b \in Batches :
        LET w == worker[b] IN
        /\ w.pc = "raised" => w.line # 40
        /\ w.pc = "L57" => PositiveProbe(w.job)
        /\ (w.pc = "L441" /\ ~PositiveProbe(w.job)) =>
               /\ ~w.success
               /\ LastOf(b) = LogLine("Error getting duration", b, w.i)
               /\ <<b, w.i>> \notin invoked

\* C3: a transcoder that fails, by a non-zero exit or because the executable
\* is missing, makes compress_video return False with an error line on the
\* queue; no exception leaves the call of line 57.
C3_TranscoderFailureContained ==
    \A b \in Batches :
        LET w == worker[b] IN
        /\ w.pc = "raised" => w.line # 57
        /\ (w.pc = "L441" /\ w.job.run = "nonzero") =>
               /\ ~w.success
               /\ LastOf(b) = LogLine("Error compressing", b, w.i)

\* C4: for every positive target size and duration, the video bitrate given
\* to the transcoder is at least 64 kbps and the audio bitrate is 128 kbps.
C4_BitrateFloor ==
    /\ plan.pc \in {"first", "both"} => plan.v1 >= 64 /\ plan.a1 = 128
    /\ plan.pc = "both" => plan.v2 >= 64 /\ plan.a2 = 128

C4_Witness ==
    /\ plan.pc = "both"
    /\ plan.v1 = 64 /\ plan.a1 = 128
    /\ plan.v2 > 64 /\ plan.a2 = 128

\* C5: the video bitrate is max(floor(ts * 1024 * 1024 * 8 / d / 1000) - 128,
\* 64) for a target size of ts MB and a duration of d seconds: 850 for 7 MB
\* and 60 s, 64 for 0.5 MB and 600 s.  The floor k of num / den is stated by
\* k * den <= num < (k + 1) * den.
C5_BitrateFormula ==
    plan.pc \in {"first", "both"} =>
        LET num == plan.s1 * 1024 * 1024 * 8
            den == plan.dur * 1000
        IN  /\ IF plan.v1 > 64
               THEN /\ (plan.v1 + 128) * den <= num
                    /\ num < (plan.v1 + 128 + 1) * den
               ELSE /\ plan.v1 = 64
                    /\ num < (64 + 128 + 1) * den
            /\ (plan.s1 = 14 /\ plan.dur = 120) => plan.v1 = 850
            /\ (plan.s1 = 1 /\ plan.dur = 1200) => plan.v1 = 64

C5_Witness ==
    /\ plan.pc = "first"
    /\ plan.s1 = 14 /\ plan.dur = 120
    /\ plan.v1 = 850

\* C6: at a fixed duration, a larger target size never gives a smaller video
\* bitrate.
C6_BitrateMonotone ==
    (plan.pc = "both" /\ plan.s1 <= plan.s2) => plan.v1 <= plan.v2

C6_Witness ==
    /\ plan.pc = "both"
    /\ plan.s1 < plan.s2
    /\ plan.v1 < plan.v2

\* the progress values put on the queue from the start of batch b up to its
\* {"done": True}
ProgressUpToDone(b) ==
    LET since == SinceStart(b)
        k == CHOOSE j \in 1..Len(since) : since[j] = DoneMsg(b)
    IN  SelectSeq(SubSeq(since, 1, k), LAMBDA m : m.kind = "progress")

\* C7: the progress values put on progress_queue from the start of a batch
\* up to its {"done": True} never decrease, lie in [0, 100], and the last of
\* them is 100.  (The value of a message is n / d * 100.)
C7_ProgressMonotone ==
    \A b \in Batches :
        worker[b].pc = "finished" =>
            LET vs == ProgressUpToDone(b) IN
            /\ \A j \in 1..Len(vs) : 0 <= vs[j].n /\ vs[j].n <= vs[j].d
            /\ \A j \in 1..(Len(vs) - 1) :
                   vs[j].n * vs[j + 1].d <= vs[j + 1].n * vs[j].d
            /\ vs # <<>> /\ vs[Len(vs)].n = vs[Len(vs)].d

\* C8: every message put on progress_queue is handled by process_queue
\* exactly once and in the order of the puts: what was put is what has been
\* handled followed by what is still in the queue.
C8_QueueOrder == pushed = handled \o progress_queue

C8_Witness ==
    /\ Len(handled) >= 2
    /\ Len(progress_queue) >= 2
    /\ \E b \in Batches : Running(b)

\* C9: {"done": True} is the last message of its batch: after it, the thread
\* of the batch puts nothing on the queue and process_queue handles nothing
\* of that batch.
C9_DoneIsLast ==
    \A b \in Batches :
        LET DoneLast(seq) ==
                \A j \in 1..Len(seq) : \A k \in (j + 1)..Len(seq) :
                    seq[j] = DoneMsg(b) => seq[k].b # b
        IN  DoneLast(SinceStart(b)) /\ DoneLast(HandledSinceStart(b))

C9_Witness ==
    \E b \in Batches :
        /\ worker[b].pc = "finished"
        /\ Len(HandledSinceStart(b)) >= 3
        /\ handled[Len(handled)] = DoneMsg(b)

\* the batch-level input start_compression must turn down
InvalidBatchInput ==
    \/ video_files = <<>>
    \/ ~target_size.num
    \/ target_size.v <= 0
    \/ output_dir = ""
    \/ output_dir = Uncreatable

\* a step of start_compression: it ends in a warning or an exception, or it
\* starts a thread
StartCalled ==
    \/ rejected' # rejected
    \/ \E b \in Batches : worker'[b] # worker[b] /\ worker'[b].pc = "L420"

C11_ToolUnavailable ==
    ffmpeg_path = "None" =>
        /\ \A b \in Batches : worker[b].pc = "none"
        /\ invoked = {}

\* what the thread of batch b has put since it was started, and the log
\* lines of its jobs among that
Mine(b) == SelectSeq(SinceStart(b), LAMBDA m : m.b = b)
JobLines(b) ==
    SelectSeq(Mine(b), LAMBDA m : m.kind \notin {"progress", "done", "Starting"})
OfKind(seq, kinds) == SelectSeq(seq, LAMBDA m : m.kind \in kinds)
OutcomeKinds == {"compressed", "Failed to compress"}
AtJob(w) == w.pc \in {"L436", "L439", "L57", "L441", "L445"}

\* C12: within a batch the jobs run in input order, one at a time, each at
\* most once.  The lines of job i + 1 come after all the lines of job i, no
\* job is announced, probed or transcoded twice, the j-th job announced is
\* the j-th file of the list, and the probe of a job starts only when every
\* earlier job has put its two progress values and its outcome line.
C12_SequentialOnce ==
    \A b \in Batches :
        LET w == worker[b]
            lines == JobLines(b)
            announced == OfKind(lines, {"Processing"})
        IN  /\ \A k \in 1..(Len(lines) - 1) : lines[k].i <= lines[k + 1].i
            /\ \A k \in 1..Len(lines) : \A l \in (k + 1)..Len(lines) :
                   lines[k].kind = lines[l].kind => lines[k].i # lines[l].i
            /\ \A j \in 1..Len(announced) : announced[j].i = j - 1
            /\ AtJob(w) => w.video_file = video_files[w.i + 1]
            /\ w.pc = "L439" =>
                   /\ Len(OfKind(Mine(b), OutcomeKinds)) = w.i
                   /\ Len(OfKind(Mine(b), {"progress"})) = 2 * w.i + 1
                   /\ Len(announced) = w.i + 1
            /\ \A p \in invoked : p[1] = b =>
                   \E k \in 1..Len(lines) :
                       /\ lines[k].kind \in {"Completed", "Error compressing"}
                       /\ lines[k].i = p[2]

C12_Witness ==
    \E b \in Batches :
        /\ worker[b].pc = "finished"
        /\ LogLine("Error compressing", b, 0) \in Range(Mine(b))
        /\ LogLine("Completed", b, 1) \in Range(Mine(b))

\* C13: process_queue never waits and always sets its timer again, so with
\* the event loop running its timers everything that is put on
\* progress_queue is handled in the end: the timer is always pending, and a
\* non-empty queue leads to a state where all that was put has been handled.
C13_ConsumerRearms ==
    /\ []timer
    /\ (progress_queue # <<>>) ~> (handled = pushed)

C13_Witness ==
    /\ timer
    /\ progress_queue = <<>>
    /\ handled = pushed
    /\ \E b \in Batches : worker[b].pc = "finished" /\ DoneMsg(b) \in Range(handled)

\* C14, as stated: for every job i the line announcing the job is put before
\* the pre-job progress value i / N * 100.  Once the thread is at job i and
\* has put that value (its (2i + 1)-th), the announcement is among its puts.
C14_LogBeforeProgress ==
    \A b \in Batches :
        LET w == worker[b] IN
        (/\ AtJob(w)
         /\ w.processed = w.i
         /\ Len(OfKind(Mine(b), {"progress"})) = 2 * w.i + 1)
            => LogLine("Processing", b, w.i) \in Range(Mine(b))

\* C14, amended: for every job i the pre-job progress value i / N * 100 is
\* put first and the line announcing the job directly after it.
C14_ProgressBeforeLog ==
    \A b \in Batches :
        LET w == worker[b]
            mine == Mine(b)
        IN  \A k \in 1..Len(mine) :
                /\ mine[k].kind = "Processing" =>
                       /\ k > 1
                       /\ mine[k - 1].kind = "progress"
                       /\ mine[k - 1].n = mine[k].i
                       /\ Running(b) => mine[k - 1].d = w.total_files
                /\ (/\ mine[k].kind = "progress"
                    /\ k > 1
                    /\ mine[k - 1].kind \in OutcomeKinds \cup {"Starting"}
                    /\ k < Len(mine))
                       => mine[k + 1] = LogLine("Processing", b, mine[k].n)

C14_Witness ==
    \E b \in Batches :
        /\ worker[b].pc = "L439"
        /\ worker[b].i = 1
        /\ LogLine("Processing", b, 1) \in Range(Mine(b))

\* C15: every job of a batch, whether it succeeds or fails, has exactly two
\* progress values put for it, i / N * 100 before it and (i + 1) / N * 100
\* after it, so a batch that reaches {"done": True} has put 2N of them.  The
\* j-th value of a batch is (j div 2) / N * 100; a thread that has ended, by
\* the end of the loop or by a job that failed with an exception (lines 15,
\* 40, 57), has put two values for every job it announced.
C15_TwoProgressPerJob ==
    \A b \in Batches :
        LET w == worker[b]
            prog == OfKind(Mine(b), {"progress"})
            announced == OfKind(Mine(b), {"Processing"})
        IN  /\ \A j \in 1..Len(prog) : prog[j].n = j \div 2
            /\ Running(b) => \A j \in 1..Len(prog) : prog[j].d = w.total_files
            /\ w.pc = "finished" => Len(prog) = 2 * Len(announced)
            /\ (w.pc = "raised" /\ w.line \in {15, 40, 57}) =>
                   Len(prog) = 2 * Len(announced)

ResultKinds == {"Completed", "Error getting duration", "Error compressing"}

C17_StartOnlyWithVideos ==
    Enabled("compress_button") => video_files # <<>>

\* a batch whose thread was started and whose {"done": True} process_queue
\* has not handled yet
Unfinished(b) ==
    /\ worker[b].pc # "none"
    /\ DoneMsg(b) \notin Range(HandledSinceStart(b))

\* C18: from the start of a compress_videos thread until process_queue has
\* handled the {"done": True} of its batch, the Start Compression button is
\* disabled, so that start_compression cannot start a second thread, and at
\* most one thread runs.
C18_OneWorker ==
    /\ (\E b \in Batches : Unfinished(b)) => ~Enabled("compress_button")
    /\ Cardinality({b \in Batches : Running(b)}) <= 1

\* C19: the target size and the output directory a compress_videos thread
\* works with are the ones start_compression checked when it started the
\* thread (a number > 0, a non-empty directory), whatever is typed into the
\* two entries afterwards; in particular the thread's own float() of line 421
\* does not fail.
C19_ValidatedValuesUsed ==
    \A b \in Batches :
        LET w == worker[b] IN
        /\ w.pc = "raised" => w.line # 421
        /\ (Running(b) /\ w.pc # "L420") =>
               /\ Num(w.target_size) = w.checked.target_size
               /\ w.output_dir = w.checked.output_dir
               /\ w.target_size > 0
               /\ w.output_dir # ""

\* C20: when the transcoder is run for a job, with '-y', the output path of
\* the job (the output directory joined with the base name of the input) is
\* no input path of the batch and is not the output path of another job of
\* the batch.
C20_DistinctOutputPaths ==
    \A b \in Batches :
        LET w == worker[b] IN
        w.pc = "L57" =>
            /\ OutputFile(w) \notin Range(w.files)
            /\ \A k \in 1..Len(w.files) :
                   w.files[k] # w.video_file =>
                       Join(w.output_dir, Basename(w.files[k])) # OutputFile(w)

====
